---- MODULE Spec2Model ----
(***************************************************************************)
(* Model of fw/60led_srl/60led_srl.ino: the double-buffer handoff between  *)
(* the PDM interrupt handler onPDMdata() and the foreground loop(), and    *)
(* the per-frame pipeline (RemoveDCBias, ZeroFFT, band aggregation,        *)
(* auto gain, display) that loop() runs on a handed-off block.             *)
(*                                                                         *)
(* Blocks are named 1 (audio_buffer1 / buffer1_size) and 2 (audio_buffer2 /*)
(* buffer2_size); a pointer to a block or to its size is the block's name. *)
(* onPDMdata() runs in interrupt context: it preempts loop() between any   *)
(* two statements, and loop() never runs while it is active.               *)
(*                                                                         *)
(* float values (auto_gain_level, the normalized level) are carried as     *)
(* integers in units of 1/GainScale, products and quotients rounded down.  *)
(*                                                                         *)
(* Spec and FairSpec run the handoff on blocks of BlockSize samples and    *)
(* NumBands bands; DCSpec runs loop() on blocks of arbitrary samples;      *)
(* GainSpec feeds the auto gain raw energies; BandSpec runs the band loop  *)
(* over the NUMPIXELS bands and fft_size bins of the source; TestSpec runs *)
(* loop() of fw/fft_test/fft_test.ino, the test variant of the pipeline.   *)
(***************************************************************************)
EXTENDS Integers, Sequences, FiniteSets, TLC

(* ------------------------------ bounds -------------------------------- *)

\* Samples per block.  The source sets fft_size = 1024 (line 48); the handoff
\* is checked on blocks of BlockSize samples.
BlockSize == 3

\* Display elements driven.  The source drives NUMPIXELS = 60 (line 33); the
\* model drives the first NumBands of them.
NumBands == 2

\* Largest PDM.available() >> 1 of one onPDMdata() invocation.
MaxAvail == 3

\* Samples the peripheral hands out in one run of Spec.
MaxStream == 13

\* uint32_t loop_count (line 101) is carried modulo LoopCountWrap.
LoopCountWrap == 4

(* ------------------------- program constants -------------------------- *)

NUMPIXELS == 60

fft_size == 1024

raw_min_value == 6

GainScale == 1000

\* const float min_auto_gain = 0.005f, in units of 1/GainScale.
min_auto_gain == 5

frequency_bins_count ==
  <<  1,  1,  1,  1,  1,  1,  1,  1,  1,  1,
      1,  1,  1,  1,  1,  1,  1,  1,  1,  1,
      1,  1,  1,  1,  1,  1,  1,  1,  1,  1,
      1,  1,  1,  1,  1,  1,  1,  1,  1,  1,
      2,  2,  2,  2,  2,  2,  2,  2,  2,  3,
     25, 26, 27, 28, 29, 30, 32, 33, 34, 130 >>

\* frequency_bins_count[i] of the source, i counted from 0.
BinsCount(i) == frequency_bins_count[i + 1]

\* float bin_minimum[NUMPIXELS] (lines 89-96), in units of 1/GainScale.
bin_minimum ==
  <<  0,  0,  0,  0,  0,  0,  0,  0,  0,  0,
      0,  0,  0,  0,  0,  0,  0,  0,  0,  0,
      0,  0,  0,  0,  0,  0,  0,  0,  0,  0,
      0,  0,  0,  0,  0,  0,  0,  0,  0,  0,
      0,  0,  0,  0,  0,  0,  0,  0,  0,  0,
     20, 50, 20, 20, 50, 20,  0,  0, 20, 50 >>

\* bin_minimum[i] of the source, i counted from 0.
BinMinimum(i) == bin_minimum[i + 1]

Blocks == {1, 2}

Slots == 0 .. BlockSize - 1

Bands == 0 .. NumBands - 1

\* Magnitudes a bin of ZeroFFT's output takes in Spec.
SpectrumValues == {0, raw_min_value + 10}

(* --------------------------- arithmetic ------------------------------- *)

Min(a, b) == IF a < b THEN a ELSE b

Max(a, b) == IF a > b THEN a ELSE b

\* Conversion of an int to short (two's complement, 16 bits).
ToShort(x) == ((x + 32768) % 65536) - 32768

\* C++ integer division, truncating toward zero.
TruncDiv(a, b) == IF a >= 0 THEN a \div b ELSE -((-a) \div b)

RECURSIVE SumTo(_, _)
\* data[0] + ... + data[n-1]
SumTo(data, n) == IF n = 0 THEN 0 ELSE SumTo(data, n - 1) + data[n - 1]

\* (maybe_next / the other block)
Other(b) == IF b = 1 THEN 2 ELSE 1

(* ----------------------------- state ---------------------------------- *)

VARIABLES
  audio_buffer,     \* audio_buffer[b][k]: sample k of block b
  buffer_size,      \* buffer_size[b]: buffer1_size, buffer2_size
  write_buffer,     \* short* write_buffer
  write_size,       \* int* volatile write_size
  read_buffer,      \* short* read_buffer
  read_size,        \* int* volatile read_size
  auto_gain_level,  \* float auto_gain_level[NUMPIXELS]
  loop_count,       \* uint32_t loop_count
  pixels,           \* colours set by setPixelColor since construction (green)
  pixel_values,     \* float pixel_values[NUMPIXELS] of loop()
  strip,            \* colours latched onto the strip by the last show()
  pc,               \* position of loop()
  band_i,           \* i of the band loop of loop()
  fft_offset,       \* fft_offset of loop()
  isr_pc,           \* position of onPDMdata()
  \* history, written only by the specifications' wrappers
  pdm_count,        \* samples PDM.read() has handed out so far
  consumed,         \* samples of the blocks loop() has processed, in order
  overrun,          \* a completed block has been discarded
  window_handoff,   \* a block was handed over between lines 211 and 215
  last_level,       \* per band: raw energy of the latest update, -1 before
  rising,           \* per band: the raw energies fed so far strictly increase
  frames,           \* per band: updates fed (GainSpec)
  shows,            \* show() calls since the latest successful poll
  written,          \* per element: setPixelColor calls since that poll
  bins_read,        \* << band, bin >> for each bin read since that poll
  last_poll,        \* outcome of loop()'s latest test of line 141
  \* fw/fft_test/fft_test.ino (TestSpec)
  pixel_value,      \* int pixel_value[NUMPIXELS] of its loop()
  max_val           \* short max_val of its loop()

progVars == << audio_buffer, buffer_size, write_buffer, write_size, read_buffer,
               read_size, auto_gain_level, loop_count, pixels, pixel_values,
               strip, pc, band_i, fft_offset, isr_pc >>

frameHist == << shows, written, bins_read >>

testVars == << pixel_value, max_val >>

histVars == << pdm_count, consumed, overrun, window_handoff, last_level,
               rising, frames, frameHist, last_poll, testVars >>

vars == << audio_buffer, buffer_size, write_buffer, write_size, read_buffer,
           read_size, auto_gain_level, loop_count, pixels, pixel_values, strip,
           pc, band_i, fft_offset, isr_pc,
           pdm_count, consumed, overrun, window_handoff, last_level, rising,
           frames, shows, written, bins_read, last_poll, pixel_value,
           max_val >>

\* Mutant of InitProg: the read pointers start on the second block.
InitProg_readSecond ==
  /\ audio_buffer = [b \in Blocks |-> [k \in Slots |-> 0]]
  /\ buffer_size = [b \in Blocks |-> 0]
  /\ write_buffer = 1
  /\ write_size = 1
  /\ read_buffer = 2
  /\ read_size = 2
  /\ auto_gain_level = [i \in Bands |-> min_auto_gain]
  /\ loop_count = 0
  /\ pixels = [i \in Bands |-> 0]
  /\ pixel_values = [i \in Bands |-> 0]
  /\ strip = [i \in Bands |-> 0]
  /\ pc = "poll"
  /\ band_i = 0
  /\ fft_offset = 1
  /\ isr_pc = "idle"

\* Globals as initialised at lines 54-67 and 101, after setup() (line 104).
InitProg ==
  /\ audio_buffer = [b \in Blocks |-> [k \in Slots |-> 0]]
  /\ buffer_size = [b \in Blocks |-> 0]
  /\ write_buffer = 1
  /\ write_size = 1
  /\ read_buffer = 1
  /\ read_size = 1
  /\ auto_gain_level = [i \in Bands |-> min_auto_gain]
  /\ loop_count = 0
  /\ pixels = [i \in Bands |-> 0]
  /\ pixel_values = [i \in Bands |-> 0]
  /\ strip = [i \in Bands |-> 0]
  /\ pc = "poll"
  /\ band_i = 0
  /\ fft_offset = 1
  /\ isr_pc = "idle"

InitHist ==
  /\ pdm_count = 0
  /\ consumed = << >>
  /\ overrun = FALSE
  /\ window_handoff = FALSE
  /\ last_level = [i \in Bands |-> -1]
  /\ rising = [i \in Bands |-> TRUE]
  /\ frames = [i \in Bands |-> 0]
  /\ shows = 0
  /\ written = [i \in Bands |-> 0]
  /\ bins_read = << >>
  /\ pixel_value = [i \in Bands |-> 0]
  /\ max_val = 0
  /\ last_poll = "none"

Init == InitProg /\ InitHist

(* --------------------------- onPDMdata -------------------------------- *)

\* Lines 224-232: read min(space, available) samples into the write block.
\* available: PDM.available() >> 1; data[k]: the k-th sample PDM.read() yields.
SamplesToRead(available) == Min(BlockSize - buffer_size[write_size], available)

\* Mutant of onPDMdata_read: PDM.read() into the start of the write block
\* instead of &write_buffer[*write_size].
onPDMdata_read_fromStart(available, data) ==
  /\ isr_pc = "idle"
  /\ LET samples_to_read == SamplesToRead(available)
         at == buffer_size[write_size]
     IN /\ audio_buffer' =
             [audio_buffer EXCEPT ![write_buffer] =
                [k \in Slots |-> IF k < samples_to_read
                                 THEN data[k]
                                 ELSE audio_buffer[write_buffer][k]]]
        /\ buffer_size' = [buffer_size EXCEPT ![write_size] = at + samples_to_read]
  /\ isr_pc' = "check"
  /\ UNCHANGED << write_buffer, write_size, read_buffer, read_size,
                  auto_gain_level, loop_count, pixels, pixel_values, strip, pc, band_i,
                  fft_offset >>

onPDMdata_read(available, data) ==
  /\ isr_pc = "idle"
  /\ LET samples_to_read == SamplesToRead(available)
         at == buffer_size[write_size]
     IN /\ audio_buffer' =
             [audio_buffer EXCEPT ![write_buffer] =
                [k \in Slots |-> IF k >= at /\ k < at + samples_to_read
                                 THEN data[k - at]
                                 ELSE audio_buffer[write_buffer][k]]]
        /\ buffer_size' = [buffer_size EXCEPT ![write_size] = at + samples_to_read]
  /\ isr_pc' = "check"
  /\ UNCHANGED << write_buffer, write_size, read_buffer, read_size,
                  auto_gain_level, loop_count, pixels, pixel_values, strip, pc, band_i,
                  fft_offset >>

\* Mutant of NoRoom: the overrun test left out.
NoRoom_never(maybe_next) == FALSE

\* Mutant of NoRoom: the overrun test inverted.
NoRoom_inverted(maybe_next) == buffer_size[maybe_next] = 0

\* Line 237: the overrun test on the other block.
NoRoom(maybe_next) == buffer_size[maybe_next] # 0

\* Mutant of onPDMdata_rotate: on overrun the oldest block is dropped, the
\* writer moving on to the block that was waiting.
onPDMdata_rotate_dropOldest ==
  /\ isr_pc = "check"
  /\ isr_pc' = "idle"
  /\ IF buffer_size[write_size] = BlockSize
     THEN LET maybe_next == Other(write_size)
          IN /\ write_size' = maybe_next
             /\ write_buffer' = Other(write_buffer)
             /\ buffer_size' = [buffer_size EXCEPT ![maybe_next] = 0]
     ELSE UNCHANGED << buffer_size, write_size, write_buffer >>
  /\ UNCHANGED << audio_buffer, read_buffer, read_size, auto_gain_level,
                  loop_count, pixels, pixel_values, strip, pc, band_i, fft_offset >>

\* Mutant of onPDMdata_rotate: on overrun the completed block is left full.
onPDMdata_rotate_keepFull ==
  /\ isr_pc = "check"
  /\ isr_pc' = "idle"
  /\ IF buffer_size[write_size] = BlockSize /\ buffer_size[Other(write_size)] = 0
     THEN /\ write_size' = Other(write_size)
          /\ write_buffer' = Other(write_buffer)
     ELSE UNCHANGED << write_size, write_buffer >>
  /\ UNCHANGED << audio_buffer, buffer_size, read_buffer, read_size,
                  auto_gain_level, loop_count, pixels, pixel_values, strip, pc, band_i,
                  fft_offset >>

\* Mutant of onPDMdata_rotate: the discard keeps the block's first sample.
onPDMdata_rotate_keepFirst ==
  /\ isr_pc = "check"
  /\ isr_pc' = "idle"
  /\ IF buffer_size[write_size] = BlockSize
     THEN LET maybe_next == Other(write_size)
          IN IF NoRoom(maybe_next)
             THEN /\ buffer_size' = [buffer_size EXCEPT ![write_size] = 1]
                  /\ UNCHANGED << write_size, write_buffer >>
             ELSE /\ write_size' = maybe_next
                  /\ write_buffer' = Other(write_buffer)
                  /\ UNCHANGED buffer_size
     ELSE UNCHANGED << buffer_size, write_size, write_buffer >>
  /\ UNCHANGED << audio_buffer, read_buffer, read_size, auto_gain_level,
                  loop_count, pixels, pixel_values, strip, pc, band_i,
                  fft_offset >>

\* Lines 234-245: discard the completed block, or switch to the other one.
onPDMdata_rotate ==
  /\ isr_pc = "check"
  /\ isr_pc' = "idle"
  /\ IF buffer_size[write_size] = BlockSize
     THEN LET maybe_next == Other(write_size)
          IN IF NoRoom(maybe_next)
             THEN /\ buffer_size' = [buffer_size EXCEPT ![write_size] = 0]
                  /\ UNCHANGED << write_size, write_buffer >>
             ELSE /\ write_size' = maybe_next
                  /\ write_buffer' = Other(write_buffer)
                  /\ UNCHANGED buffer_size
     ELSE UNCHANGED << buffer_size, write_size, write_buffer >>
  /\ UNCHANGED << audio_buffer, read_buffer, read_size, auto_gain_level,
                  loop_count, pixels, pixel_values, strip, pc, band_i, fft_offset >>

(* ----------------------- the frame pipeline ---------------------------- *)

\* Lines 129-138: subtract the (truncated) mean from every sample, each
\* difference converted back to short.
\* Mutant of RemoveDCBias: the average is computed but not subtracted.
RemoveDCBias_keep(data) == [k \in Slots |-> ToShort(data[k])]

RemoveDCBias(data) ==
  LET avg == TruncDiv(SumTo(data, BlockSize), BlockSize)
  IN [k \in Slots |-> ToShort(data[k] - avg)]

\* Line 158: ZeroFFT(read_buffer, fft_size) is a library call that overwrites
\* the block in place with magnitude bins.  Its result is any block over the
\* magnitudes S, except that a block of silence transforms to silence.
ZeroFFT(data, S) ==
  IF \A k \in Slots : data[k] = 0
  THEN {[k \in Slots |-> 0]}
  ELSE [Slots -> S]

RECURSIVE BandTotal(_, _, _)
\* Lines 169-172: total of std::max<short>(0, bin - raw_min_value) over the
\* count bins from offset on (both arguments of max converted to short).
BandTotal(data, offset, count) ==
  IF count = 0 THEN 0
  ELSE IF count = 1 THEN Max(0, ToShort(data[offset] - raw_min_value))
  ELSE BandTotal(data, offset, count \div 2)
         + BandTotal(data, offset + count \div 2, count - count \div 2)

\* Mutant of AutoGain: the decay is not floored at min_auto_gain.
AutoGain_noFloor(gain, level) ==
  IF level > gain
  THEN level
  ELSE (gain * 997) \div 1000

\* Mutant of AutoGain: the decay multiplies by 0.9.
AutoGain_fastDecay(gain, level) ==
  IF level > gain THEN level ELSE Max(min_auto_gain, (gain * 900) \div 1000)

\* Mutant of AutoGain: a level equal to the gain takes the attack branch.
AutoGain_tieAttacks(gain, level) ==
  IF level >= gain
  THEN level
  ELSE Max(min_auto_gain, (gain * 997) \div 1000)

\* Mutant of AutoGain: the attack is smoothed instead of instant.
AutoGain_smoothed(gain, level) ==
  IF level > gain
  THEN gain + (level - gain) \div 2
  ELSE Max(min_auto_gain, (gain * 997) \div 1000)

\* Lines 177-182: instant attack, else decay by 0.997 down to min_auto_gain.
\* gain and level are in units of 1/GainScale.
AutoGain(gain, level) ==
  IF level > gain
  THEN level
  ELSE Max(min_auto_gain, (gain * 997) \div 1000)

\* Line 184: gain_level = level / auto_gain_level[i], in units of 1/GainScale.
Normalized(level, gain) == (level * GainScale) \div gain

\* Lines 184-192: g = static_cast<int>(level / auto_gain_level[i] * 250.0f),
\* packed by pixels.Color() into 8 bits.
PixelGreen(level, gain) == ((level * 250) \div gain) % 256

\* Lines 177-192 for band i with raw total `total`.
BandBody(i, total) ==
  LET level == total * GainScale
      gain == AutoGain(auto_gain_level[i], level)
  IN /\ auto_gain_level' = [auto_gain_level EXCEPT ![i] = gain]
     /\ pixel_values' = [pixel_values EXCEPT ![i] = Normalized(level, gain)]
     /\ pixels' = [pixels EXCEPT ![i] = PixelGreen(level, gain)]

(* ------------------------------ loop ---------------------------------- *)

\* Line 141: the test of the poll.
ReadBlockFull == buffer_size[read_size] = BlockSize

\* Mutant of loop_idle: the failing poll still counts a loop.
loop_idle_counts ==
  /\ isr_pc = "idle"
  /\ pc = "poll"
  /\ ~ReadBlockFull
  /\ loop_count' = (loop_count + 1) % LoopCountWrap
  /\ UNCHANGED << audio_buffer, buffer_size, write_buffer, write_size,
                  read_buffer, read_size, auto_gain_level, pixels,
                  pixel_values, strip, pc, band_i, fft_offset, isr_pc >>

\* Lines 141-144: no full block; return.
loop_idle ==
  /\ isr_pc = "idle"
  /\ pc = "poll"
  /\ ~ReadBlockFull
  /\ UNCHANGED progVars

\* Line 141, the test passing.
loop_ready ==
  /\ isr_pc = "idle"
  /\ pc = "poll"
  /\ ReadBlockFull
  /\ pc' = "dc"
  /\ UNCHANGED << audio_buffer, buffer_size, write_buffer, write_size,
                  read_buffer, read_size, auto_gain_level, loop_count, pixels, pixel_values,
                  strip, band_i, fft_offset, isr_pc >>

\* Lines 154-156.
loop_dc ==
  /\ isr_pc = "idle"
  /\ pc = "dc"
  /\ loop_count' = (loop_count + 1) % LoopCountWrap
  /\ audio_buffer' = [audio_buffer EXCEPT
                        ![read_buffer] = RemoveDCBias(audio_buffer[read_buffer])]
  /\ pc' = "fft"
  /\ UNCHANGED << buffer_size, write_buffer, write_size, read_buffer, read_size,
                  auto_gain_level, pixels, pixel_values, strip, band_i, fft_offset, isr_pc >>

\* Lines 158-168: the transform, then pixel_values = {} and entry to the
\* band loop.
loop_fft(S) ==
  /\ isr_pc = "idle"
  /\ pc = "fft"
  /\ \E out \in ZeroFFT(audio_buffer[read_buffer], S) :
       audio_buffer' = [audio_buffer EXCEPT ![read_buffer] = out]
  /\ pixel_values' = [i \in DOMAIN pixel_values |-> 0]
  /\ fft_offset' = 1
  /\ band_i' = 0
  /\ pc' = "bands"
  /\ UNCHANGED << buffer_size, write_buffer, write_size, read_buffer, read_size,
                  auto_gain_level, loop_count, pixels, strip, isr_pc >>

\* The raw total of the band the loop is at.
CurrentTotal == BandTotal(audio_buffer[read_buffer], fft_offset, BinsCount(band_i))

\* Mutant of loop_band_n: the loop is left for show() after its first band.
loop_band_n_early(n) ==
  /\ isr_pc = "idle"
  /\ pc = "bands"
  /\ band_i < n
  /\ BandBody(band_i, CurrentTotal)
  /\ fft_offset' = fft_offset + BinsCount(band_i)
  /\ band_i' = band_i + 1
  /\ pc' = "show"
  /\ UNCHANGED << audio_buffer, buffer_size, write_buffer, write_size,
                  read_buffer, read_size, loop_count, strip, isr_pc >>

\* Mutant of loop_band_n: fft_offset advances by one bin whatever the band.
loop_band_n_overlap(n) ==
  /\ isr_pc = "idle"
  /\ pc = "bands"
  /\ band_i < n
  /\ BandBody(band_i, CurrentTotal)
  /\ fft_offset' = fft_offset + 1
  /\ band_i' = band_i + 1
  /\ pc' = IF band_i + 1 < n THEN "bands" ELSE "show"
  /\ UNCHANGED << audio_buffer, buffer_size, write_buffer, write_size,
                  read_buffer, read_size, loop_count, strip, isr_pc >>

\* Lines 168-204, one iteration of a loop over n bands.
loop_band_n(n) ==
  /\ isr_pc = "idle"
  /\ pc = "bands"
  /\ band_i < n
  /\ BandBody(band_i, CurrentTotal)
  /\ fft_offset' = fft_offset + BinsCount(band_i)
  /\ band_i' = band_i + 1
  /\ pc' = IF band_i + 1 < n THEN "bands" ELSE "show"
  /\ UNCHANGED << audio_buffer, buffer_size, write_buffer, write_size,
                  read_buffer, read_size, loop_count, strip, isr_pc >>

loop_band == loop_band_n(NumBands)

\* Lines 206-208.
loop_show ==
  /\ isr_pc = "idle"
  /\ pc = "show"
  /\ strip' = pixels
  /\ pc' = "mark"
  /\ UNCHANGED << audio_buffer, buffer_size, write_buffer, write_size,
                  read_buffer, read_size, auto_gain_level, loop_count, pixels, pixel_values,
                  band_i, fft_offset, isr_pc >>

\* Mutant of loop_mark: the block is marked as holding one sample.
loop_mark_one ==
  /\ isr_pc = "idle"
  /\ pc = "mark"
  /\ buffer_size' = [buffer_size EXCEPT ![read_size] = 1]
  /\ pc' = "flip_size"
  /\ UNCHANGED << audio_buffer, write_buffer, write_size, read_buffer,
                  read_size, auto_gain_level, loop_count, pixels,
                  pixel_values, strip, band_i, fft_offset, isr_pc >>

\* Line 211: *read_size = 0.
loop_mark ==
  /\ isr_pc = "idle"
  /\ pc = "mark"
  /\ buffer_size' = [buffer_size EXCEPT ![read_size] = 0]
  /\ pc' = "flip_size"
  /\ UNCHANGED << audio_buffer, write_buffer, write_size, read_buffer, read_size,
                  auto_gain_level, loop_count, pixels, pixel_values, strip, band_i,
                  fft_offset, isr_pc >>

\* Mutant of loop_flip_size: read_size keeps pointing at the block just read.
loop_flip_size_stay ==
  /\ isr_pc = "idle"
  /\ pc = "flip_size"
  /\ pc' = "flip_buffer"
  /\ UNCHANGED << audio_buffer, buffer_size, write_buffer, write_size,
                  read_buffer, read_size, auto_gain_level, loop_count, pixels, pixel_values,
                  strip, band_i, fft_offset, isr_pc >>

\* Line 214.
loop_flip_size ==
  /\ isr_pc = "idle"
  /\ pc = "flip_size"
  /\ read_size' = Other(read_size)
  /\ pc' = "flip_buffer"
  /\ UNCHANGED << audio_buffer, buffer_size, write_buffer, write_size,
                  read_buffer, auto_gain_level, loop_count, pixels, pixel_values, strip,
                  band_i, fft_offset, isr_pc >>

\* Line 215.
loop_flip_buffer ==
  /\ isr_pc = "idle"
  /\ pc = "flip_buffer"
  /\ read_buffer' = Other(read_buffer)
  /\ pc' = "poll"
  /\ UNCHANGED << audio_buffer, buffer_size, write_buffer, write_size,
                  read_size, auto_gain_level, loop_count, pixels, pixel_values, strip,
                  band_i, fft_offset, isr_pc >>

(* ------------------- Spec: the program with its history ---------------- *)

\* The peripheral's samples are numbered: sample number n has value n, so
\* a block's content tells which stretch of the stream it holds.
StreamFrom(n) == [k \in 0 .. MaxAvail |-> n + k + 1]

\* The block completed by this invocation is about to be discarded.
Discarding == buffer_size[write_size] = BlockSize /\ NoRoom(Other(write_size))

\* The block completed by this invocation is about to be handed over.
HandingOver == buffer_size[write_size] = BlockSize /\ ~NoRoom(Other(write_size))

PDMRead ==
  \E available \in 0 .. MaxAvail :
    /\ pdm_count + SamplesToRead(available) <= MaxStream
    /\ onPDMdata_read(available, StreamFrom(pdm_count))
    /\ pdm_count' = pdm_count + SamplesToRead(available)
    /\ UNCHANGED << consumed, overrun, window_handoff, last_level, rising, frames,
                    frameHist, last_poll, testVars >>

PDMRotate ==
  /\ onPDMdata_rotate
  /\ overrun' = (overrun \/ Discarding)
  /\ window_handoff' =
       (window_handoff \/ (HandingOver /\ pc \in {"flip_size", "flip_buffer"}))
  /\ UNCHANGED << pdm_count, consumed, last_level, rising, frames,
                    frameHist, last_poll, testVars >>

LoopIdle ==
  /\ loop_idle
  /\ last_poll' = "idle"
  /\ UNCHANGED << pdm_count, consumed, overrun, window_handoff, last_level,
                  rising, frames, frameHist, testVars >>

\* A successful poll starts a frame.
LoopReady ==
  /\ loop_ready
  /\ shows' = 0
  /\ written' = [i \in DOMAIN written |-> 0]
  /\ bins_read' = << >>
  /\ last_poll' = "ready"
  /\ UNCHANGED << pdm_count, consumed, overrun, window_handoff, last_level,
                  rising, frames, testVars >>

LoopDC ==
  /\ loop_dc
  /\ consumed' = consumed \o [k \in 1 .. BlockSize |-> audio_buffer[read_buffer][k - 1]]
  /\ window_handoff' = FALSE
  /\ UNCHANGED << pdm_count, overrun, last_level, rising, frames,
                    frameHist, last_poll, testVars >>

LoopFFT == loop_fft(SpectrumValues) /\ UNCHANGED histVars

\* What one iteration of the band loop adds to the history: the bins it
\* reads (read_buffer[fft_offset], fft_offset++), the element it writes and
\* the band's raw total.
BandHist ==
  /\ bins_read' = bins_read \o [j \in 1 .. BinsCount(band_i) |->
                                  << band_i, fft_offset + j - 1 >>]
  /\ written' = [written EXCEPT ![band_i] = written[band_i] + 1]
  /\ last_level' = [last_level EXCEPT ![band_i] = CurrentTotal]
  /\ rising' = [rising EXCEPT
                  ![band_i] = rising[band_i] /\ CurrentTotal > last_level[band_i]]
  /\ UNCHANGED << pdm_count, consumed, overrun, window_handoff, frames, shows,
                  last_poll, testVars >>

LoopBand == loop_band /\ BandHist

LoopShow ==
  /\ loop_show
  /\ shows' = shows + 1
  /\ UNCHANGED << pdm_count, consumed, overrun, window_handoff, last_level,
                  rising, frames, written, bins_read, last_poll, testVars >>

LoopMark == loop_mark /\ UNCHANGED histVars

LoopFlipSize == loop_flip_size /\ UNCHANGED histVars

LoopFlipBuffer == loop_flip_buffer /\ UNCHANGED histVars

Next ==
  \/ PDMRead
  \/ PDMRotate
  \/ LoopIdle
  \/ LoopReady
  \/ LoopDC
  \/ LoopFFT
  \/ LoopBand
  \/ LoopShow
  \/ LoopMark
  \/ LoopFlipSize
  \/ LoopFlipBuffer

Spec == Init /\ [][Next]_vars

(* ----------- FairSpec: the program running forever on silence ---------- *)

\* A microphone that delivers silence: the blocks' contents, and with them
\* the gain levels and the display, stay what they are, while the handoff
\* runs as in Spec, with no bound on the samples handed out.
Silence == [k \in 0 .. MaxAvail |-> 0]

LivePDMRead ==
  \E available \in 0 .. MaxAvail :
    /\ onPDMdata_read(available, Silence)
    /\ UNCHANGED histVars

\* An invocation that finds at least one sample available.
LivePDMReadSome ==
  \E available \in 1 .. MaxAvail :
    /\ onPDMdata_read(available, Silence)
    /\ UNCHANGED histVars

LiveLoopDC ==
  /\ loop_dc
  /\ window_handoff' = FALSE
  /\ UNCHANGED << pdm_count, consumed, overrun, last_level, rising, frames,
                    frameHist, last_poll, testVars >>

LiveLoopFFT == loop_fft({0}) /\ UNCHANGED histVars

\* The statements of loop() that change state (an idle poll changes none).
LiveLoopStep ==
  \/ LoopReady
  \/ LiveLoopDC
  \/ LiveLoopFFT
  \/ LoopBand
  \/ LoopShow
  \/ LoopMark
  \/ LoopFlipSize
  \/ LoopFlipBuffer

LiveNext ==
  \/ LivePDMRead
  \/ PDMRotate
  \/ LoopIdle
  \/ LiveLoopStep

\* The interrupt handler, once entered, returns; the peripheral keeps
\* invoking it with samples available; loop() keeps being called and runs
\* whenever no interrupt is being served.
FairSpec ==
  /\ Init
  /\ [][LiveNext]_vars
  /\ WF_vars(PDMRotate)
  /\ SF_vars(LivePDMReadSome)
  /\ SF_vars(LiveLoopStep)

(* ------ DCSpec: loop() on a block of arbitrary 16-bit samples ---------- *)

\* Sample values the block of DCSpec is drawn from.
DCSamples == {-32768, -100, 0, 100, 32767}

\* The state in which the producer has filled block 1 with samples of
\* DCSamples and has moved on to block 2; loop() has not polled yet.
InitDC ==
  /\ audio_buffer \in [Blocks -> [Slots -> DCSamples]]
  /\ audio_buffer[2] = [k \in Slots |-> 0]
  /\ buffer_size = [b \in Blocks |-> IF b = 1 THEN BlockSize ELSE 0]
  /\ write_buffer = 2
  /\ write_size = 2
  /\ read_buffer = 1
  /\ read_size = 1
  /\ auto_gain_level = [i \in Bands |-> min_auto_gain]
  /\ loop_count = 0
  /\ pixels = [i \in Bands |-> 0]
  /\ pixel_values = [i \in Bands |-> 0]
  /\ strip = [i \in Bands |-> 0]
  /\ pc = "poll"
  /\ band_i = 0
  /\ fft_offset = 1
  /\ isr_pc = "idle"
  /\ pdm_count = BlockSize
  /\ consumed = << >>
  /\ overrun = FALSE
  /\ window_handoff = FALSE
  /\ last_level = [i \in Bands |-> -1]
  /\ rising = [i \in Bands |-> TRUE]
  /\ frames = [i \in Bands |-> 0]
  /\ shows = 0
  /\ written = [i \in Bands |-> 0]
  /\ bins_read = << >>
  /\ pixel_value = [i \in Bands |-> 0]
  /\ max_val = 0
  /\ last_poll = "none"

\* Blocks the producer fills in one run of DCSpec, the first included.
MaxDCBlocks == 2

\* An onPDMdata() invocation, while loop() polls an empty block, that finds
\* MaxAvail samples all of one value.
DCPDMRead ==
  \E c \in DCSamples :
    /\ pc = "poll"
    /\ ~ReadBlockFull
    /\ pdm_count < MaxDCBlocks * BlockSize
    /\ onPDMdata_read(MaxAvail, [k \in 0 .. MaxAvail |-> c])
    /\ pdm_count' = pdm_count + SamplesToRead(MaxAvail)
    /\ UNCHANGED << consumed, overrun, window_handoff, last_level, rising, frames,
                    frameHist, last_poll, testVars >>

LoopNext ==
  \/ DCPDMRead
  \/ PDMRotate
  \/ LoopIdle
  \/ LoopReady
  \/ LoopDC
  \/ LoopFFT
  \/ LoopBand
  \/ LoopShow
  \/ LoopMark
  \/ LoopFlipSize
  \/ LoopFlipBuffer

DCSpec == InitDC /\ [][LoopNext]_vars

(* ------- GainSpec: the auto gain of the bands fed raw energies --------- *)

\* Band updates fed in one run of GainSpec.
MaxGainFrames == 4

\* Raw totals of a band (sums of shorts clipped at 0) fed in GainSpec; the
\* largest keeps level * 997 within 32-bit integers.
Energies == {0, 1, 2, 10, 2000}

RECURSIVE SumFrames(_)
SumFrames(n) == IF n = 0 THEN 0 ELSE frames[n - 1] + SumFrames(n - 1)

\* Lines 177-192 applied to band i of a frame whose raw total is `total`.
GainFeed ==
  \E i \in Bands, total \in Energies :
    /\ SumFrames(NumBands) < MaxGainFrames
    /\ BandBody(i, total)
    /\ last_level' = [last_level EXCEPT ![i] = total]
    /\ rising' = [rising EXCEPT ![i] = rising[i] /\ total > last_level[i]]
    /\ frames' = [frames EXCEPT ![i] = frames[i] + 1]
    /\ UNCHANGED << audio_buffer, buffer_size, write_buffer, write_size,
                    read_buffer, read_size, loop_count, strip, pc, band_i,
                    fft_offset, isr_pc, pdm_count, consumed, overrun,
                    window_handoff, frameHist, last_poll, testVars >>

GainSpec == Init /\ [][GainFeed]_vars

(* --- BandSpec: the band loop of one frame at the source's own sizes ---- *)

AllBands == 0 .. NUMPIXELS - 1

AllSlots == 0 .. fft_size - 1

\* Magnitude every bin of the transformed block holds in BandSpec.
FlatValues == {0, raw_min_value + 1, raw_min_value + 10}

\* auto_gain_level every band enters the frame with in BandSpec: the one
\* setup() leaves, and the one left by an earlier frame of level 1000.
GainLevels == {min_auto_gain, 1000 * GainScale}

\* loop() has transformed a full block 1 and is about to enter the band loop
\* (line 168).
InitBands ==
  /\ \E v \in FlatValues :
       audio_buffer = [b \in Blocks |->
                        [k \in AllSlots |-> IF b = 1 THEN v ELSE 0]]
  /\ buffer_size = [b \in Blocks |-> IF b = 1 THEN fft_size ELSE 0]
  /\ write_buffer = 2
  /\ write_size = 2
  /\ read_buffer = 1
  /\ read_size = 1
  /\ \E g \in GainLevels : auto_gain_level = [i \in AllBands |-> g]
  /\ loop_count = 1
  /\ pixels = [i \in AllBands |-> 0]
  /\ pixel_values = [i \in AllBands |-> 0]
  /\ strip = [i \in AllBands |-> 0]
  /\ pc = "bands"
  /\ band_i = 0
  /\ fft_offset = 1
  /\ isr_pc = "idle"
  /\ pdm_count = 0
  /\ consumed = << >>
  /\ overrun = FALSE
  /\ window_handoff = FALSE
  /\ last_level = [i \in AllBands |-> -1]
  /\ rising = [i \in AllBands |-> TRUE]
  /\ frames = [i \in AllBands |-> 0]
  /\ shows = 0
  /\ written = [i \in AllBands |-> 0]
  /\ bins_read = << >>
  /\ pixel_value = [i \in AllBands |-> 0]
  /\ max_val = 0
  /\ last_poll = "ready"

AllLoopBand == loop_band_n(NUMPIXELS) /\ BandHist

BandNext ==
  \/ AllLoopBand
  \/ LoopShow

BandSpec == InitBands /\ [][BandNext]_vars

(* ---- TestSpec: loop() of fw/fft_test/fft_test.ino on one full block ---- *)

Abs(x) == IF x < 0 THEN -x ELSE x

RECURSIVE SumRange(_, _, _)
\* data[lo] + ... + data[lo + n - 1], summed by halves.
SumRange(data, lo, n) ==
  IF n = 0 THEN 0
  ELSE IF n = 1 THEN data[lo]
  ELSE SumRange(data, lo, n \div 2) + SumRange(data, lo + n \div 2, n - n \div 2)

RECURSIVE AbsRange(_, _, _)
\* fft_test.ino lines 132-134: abs(data[lo]) + ... + abs(data[lo + n - 1]).
AbsRange(data, lo, n) ==
  IF n = 0 THEN 0
  ELSE IF n = 1 THEN Abs(data[lo])
  ELSE AbsRange(data, lo, n \div 2) + AbsRange(data, lo + n \div 2, n - n \div 2)

\* Blocks of fft_size samples the test variant is run on: equal samples, and
\* a square wave.
TestBlocks ==
  {[k \in AllSlots |-> c] : c \in {0, 100}}
    \cup {[k \in AllSlots |-> IF k % 2 = 0 THEN 100 ELSE -100]}

\* fft_test.ino line 116: ZeroFFT on a block of fft_size samples; silence
\* transforms to silence, any other block to a block of equal magnitudes.
TestZeroFFT(data) ==
  IF \A k \in AllSlots : data[k] = 0
  THEN {[k \in AllSlots |-> 0]}
  ELSE {[k \in AllSlots |-> v] : v \in FlatValues}

\* fft_test.ino lines 129-130.
TestStart(i) == ((fft_size \div 2) * i) \div NUMPIXELS

TestEnd(i) == ((fft_size \div 2) * (i + 1)) \div NUMPIXELS

\* loop() of the test variant has polled a full block 1 (lines 76-104).
InitTest ==
  /\ \E block \in TestBlocks :
       audio_buffer = [b \in Blocks |->
                        IF b = 1 THEN block ELSE [k \in AllSlots |-> 0]]
  /\ buffer_size = [b \in Blocks |-> IF b = 1 THEN fft_size ELSE 0]
  /\ write_buffer = 2
  /\ write_size = 2
  /\ read_buffer = 1
  /\ read_size = 1
  /\ auto_gain_level = [i \in AllBands |-> min_auto_gain]
  /\ loop_count = 1
  /\ pixels = [i \in AllBands |-> 0]
  /\ pixel_values = [i \in AllBands |-> 0]
  /\ strip = [i \in AllBands |-> 0]
  /\ pc = "t_dc"
  /\ band_i = 0
  /\ fft_offset = 1
  /\ isr_pc = "idle"
  /\ pdm_count = 0
  /\ consumed = << >>
  /\ overrun = FALSE
  /\ window_handoff = FALSE
  /\ last_level = [i \in AllBands |-> -1]
  /\ rising = [i \in AllBands |-> TRUE]
  /\ frames = [i \in AllBands |-> 0]
  /\ shows = 0
  /\ written = [i \in AllBands |-> 0]
  /\ bins_read = << >>
  /\ pixel_value = [i \in AllBands |-> 0]
  /\ max_val = 0
  /\ last_poll = "ready"

\* What the test variant never touches.
testIdle == << buffer_size, write_buffer, write_size, read_buffer, read_size,
               auto_gain_level, loop_count, pixel_values, fft_offset, isr_pc,
               pdm_count, consumed, overrun, window_handoff, last_level,
               rising, frames, written, bins_read, last_poll >>

\* fft_test.ino lines 106-114.
test_dc ==
  /\ pc = "t_dc"
  /\ LET data == audio_buffer[read_buffer]
         avg == TruncDiv(SumRange(data, 0, fft_size), fft_size)
     IN audio_buffer' = [audio_buffer EXCEPT
                           ![read_buffer] = [k \in AllSlots |-> ToShort(data[k] - avg)]]
  /\ pc' = "t_fft"
  /\ UNCHANGED << testIdle, pixels, strip, shows, band_i, pixel_value, max_val >>

\* fft_test.ino lines 116-127.
test_fft ==
  /\ pc = "t_fft"
  /\ \E out \in TestZeroFFT(audio_buffer[read_buffer]) :
       audio_buffer' = [audio_buffer EXCEPT ![read_buffer] = out]
  /\ max_val' = 0
  /\ band_i' = 0
  /\ pc' = "t_bands"
  /\ UNCHANGED << testIdle, pixels, strip, shows, pixel_value >>

\* fft_test.ino lines 128-138, one iteration.
test_band ==
  /\ pc = "t_bands"
  /\ band_i < NUMPIXELS
  /\ LET start == TestStart(band_i)
         end == TestEnd(band_i)
         total == TruncDiv(AbsRange(audio_buffer[read_buffer], start, end - start),
                           end - start)
     IN /\ pixel_value' = [pixel_value EXCEPT ![band_i] = total]
        /\ max_val' = ToShort(Max(total, max_val))
  /\ band_i' = IF band_i + 1 < NUMPIXELS THEN band_i + 1 ELSE 0
  /\ pc' = IF band_i + 1 < NUMPIXELS THEN "t_bands" ELSE "t_pixels"
  /\ UNCHANGED << testIdle, audio_buffer, pixels, strip, shows >>

\* fft_test.ino lines 149-154, one iteration.  With max_val = 0 the integer
\* division is undefined: the build either yields a quotient of 0 or traps.
test_pixel ==
  /\ pc = "t_pixels"
  /\ band_i < NUMPIXELS
  /\ \/ /\ max_val # 0
        /\ pixels' = [pixels EXCEPT
                        ![band_i] = TruncDiv(pixel_value[band_i] * 30, max_val) % 256]
        /\ band_i' = band_i + 1
        /\ pc' = IF band_i + 1 < NUMPIXELS THEN "t_pixels" ELSE "t_show"
     \/ /\ max_val = 0
        /\ pixels' = [pixels EXCEPT ![band_i] = 0]
        /\ band_i' = band_i + 1
        /\ pc' = IF band_i + 1 < NUMPIXELS THEN "t_pixels" ELSE "t_show"
     \/ /\ max_val = 0
        /\ pc' = "t_fault"
        /\ UNCHANGED << pixels, band_i >>
  /\ UNCHANGED << testIdle, audio_buffer, strip, shows, pixel_value, max_val >>

\* fft_test.ino line 156.
test_show ==
  /\ pc = "t_show"
  /\ strip' = pixels
  /\ shows' = shows + 1
  /\ pc' = "t_mark"
  /\ UNCHANGED << testIdle, audio_buffer, pixels, band_i, pixel_value, max_val >>

TestNext ==
  \/ test_dc
  \/ test_fft
  \/ test_band
  \/ test_pixel
  \/ test_show

TestSpec == InitTest /\ [][TestNext]_vars

(* =============================== claims ============================== *)

Full(b) == buffer_size[b] = BlockSize

\* loop() is between the poll that found the read block full and line 211,
\* which marks that block consumed.
Processing == pc \in {"dc", "fft", "bands", "show", "mark"}

\* C1: whenever no onPDMdata() invocation is in progress (the only times
\* loop() can look at the shared state), at most one of the two blocks has
\* buffer_size = BlockSize.
C1_AtMostOneFull == isr_pc = "idle" => ~(Full(1) /\ Full(2))

\* C1 witness: after an overrun, outside an invocation, one block is full and
\* the other is being refilled.
C1_Witness ==
  /\ isr_pc = "idle"
  /\ overrun
  /\ Full(Other(write_size))
  /\ buffer_size[write_size] > 0

\* C2: while loop() is processing a block, write_size and write_buffer never
\* designate it, and no step of onPDMdata() changes its samples or its
\* buffer_size.
C2_ReadBlockUntouched ==
  /\ [](Processing => /\ read_buffer = read_size
                      /\ write_size # read_size
                      /\ write_buffer # read_buffer)
  /\ [][(Processing /\ isr_pc' # isr_pc) =>
          /\ audio_buffer'[read_buffer] = audio_buffer[read_buffer]
          /\ buffer_size'[read_size] = buffer_size[read_size]
          /\ write_size' # read_size
          /\ write_buffer' # read_buffer]_vars

\* C2 witness: an invocation that preempted the processing has just completed
\* the other block (which it is about to discard).
C2_Witness ==
  /\ pc = "bands"
  /\ isr_pc = "check"
  /\ Full(write_size)
  /\ Full(read_size)

\* The samples that have been read from the peripheral and that loop() has
\* not taken yet, in stream order: the full block waiting to be processed,
\* then the filled part of the write block.
Taken(b) == b = read_buffer /\ pc \in {"fft", "bands", "show", "mark"}

Waiting ==
  IF \E b \in Blocks : Full(b) /\ ~Taken(b)
  THEN LET b == CHOOSE c \in Blocks : Full(c) /\ ~Taken(c)
       IN [k \in 1 .. BlockSize |-> audio_buffer[b][k - 1]]
  ELSE << >>

Filling ==
  IF Full(write_size) THEN << >>
  ELSE [k \in 1 .. buffer_size[write_size] |-> audio_buffer[write_buffer][k - 1]]

\* C3: as long as no completed block has been discarded, the samples of the
\* blocks loop() has processed, followed by the samples still waiting in the
\* blocks, are exactly the samples read from the peripheral, in order.
C3_NoLossNoDup ==
  (isr_pc = "idle" /\ ~overrun) =>
     consumed \o Waiting \o Filling = [k \in 1 .. pdm_count |-> k]

\* C3 witness: four blocks taken by loop() with no overrun (the third and
\* fourth reuse the memory of the first and second), every sample of the
\* run read.
C3_Witness ==
  /\ ~overrun
  /\ Len(consumed) >= 4 * BlockSize
  /\ pc = "fft"
  /\ pdm_count = MaxStream

\* C4: an onPDMdata() invocation leaves write_size, write_buffer, read_size,
\* read_buffer and the other block's size and samples unchanged while it
\* reads; and when it has completed the write block while the other block is
\* still full, it sets the write block's buffer_size to 0 and changes
\* nothing else.
C4_OverrunFrame ==
  [][/\ (isr_pc = "idle" /\ isr_pc' = "check") =>
          /\ write_size' = write_size /\ write_buffer' = write_buffer
          /\ read_size' = read_size /\ read_buffer' = read_buffer
          /\ buffer_size'[Other(write_size)] = buffer_size[Other(write_size)]
          /\ audio_buffer'[Other(write_buffer)] = audio_buffer[Other(write_buffer)]
     /\ (isr_pc = "check" /\ Full(write_size) /\ Full(Other(write_size))) =>
          /\ buffer_size' = [buffer_size EXCEPT ![write_size] = 0]
          /\ isr_pc' = "idle"
          /\ UNCHANGED << audio_buffer, write_buffer, write_size, read_buffer,
                          read_size, auto_gain_level, loop_count, pixels, pixel_values, strip,
                          pc, band_i, fft_offset >>]_vars

\* C4 witness: right after a discard, the write block is empty again and the
\* other block is still full.
C4_Witness ==
  /\ isr_pc = "idle"
  /\ overrun
  /\ buffer_size[write_size] = 0
  /\ Full(Other(write_size))
  /\ Processing

\* C5 as stated: write_size/write_buffer and read_size/read_buffer designate
\* different blocks in every state.
C5_Original == write_size # read_size /\ write_buffer # read_buffer

\* C5 amended: the two roles designate different blocks while loop() is
\* processing a block, and the same block whenever loop() polls and finds no
\* full block (as in the initial state).
C5_RolesDiffer ==
  /\ Processing => (write_size # read_size /\ write_buffer # read_buffer)
  /\ (pc = "poll" /\ isr_pc = "idle" /\ ~ReadBlockFull) =>
        (write_size = read_size /\ write_buffer = read_buffer)

\* C5 witness: the second block is being processed, the producer filling the
\* block that was processed first.
C5_Witness ==
  /\ pc = "mark"
  /\ Len(consumed) = 2 * BlockSize
  /\ write_size # read_size
  /\ buffer_size[write_size] > 0

\* C6: at every poll of loop(), a block that is full is the block that
\* read_size and read_buffer designate.
C6_PollSeesFullBlock ==
  (pc = "poll" /\ isr_pc = "idle") =>
     \A b \in Blocks : Full(b) => (read_size = b /\ read_buffer = b)

\* C6 witness: a poll finds a block that was handed over between the reset
\* of buffer_size (line 211) and the flip of the read pointers (214-215).
C6_Witness ==
  /\ pc = "poll"
  /\ isr_pc = "idle"
  /\ window_handoff
  /\ ReadBlockFull

\* C7: with interrupts that keep delivering samples and a loop() that keeps
\* being called, loop() starts processing a full block again and again.
C7_ProcessesForever == []<>(pc = "dc")

\* C7 witness: an overrun (a completed block about to be discarded) after
\* loop() has already processed blocks.
C7_Witness ==
  /\ isr_pc = "check"
  /\ Full(1) /\ Full(2)
  /\ overrun
  /\ loop_count >= 2

\* C8: once RemoveDCBias has run on a block, the sum of the block's samples
\* is, in absolute value, less than the number of samples.
C8_MeanNearZero ==
  pc = "fft" =>
    LET total == SumTo(audio_buffer[read_buffer], BlockSize)
    IN -BlockSize < total /\ total < BlockSize

\* C9: every band's auto_gain_level is at least min_auto_gain, so the divisor
\* of level / auto_gain_level[i] is not zero.
C9_GainFloor ==
  \A i \in Bands : auto_gain_level[i] >= min_auto_gain /\ auto_gain_level[i] # 0

\* C9 witness: a band fed silence twice sits at the floor.
C9_Witness ==
  \E i \in Bands :
    /\ frames[i] >= 2
    /\ last_level[i] = 0
    /\ auto_gain_level[i] = min_auto_gain

\* C10 as stated: after every frame of a strictly increasing sequence of raw
\* energies the band's auto_gain_level equals the frame's raw energy.
C10_Original ==
  \A i \in Bands :
    (rising[i] /\ frames[i] >= 1) =>
       auto_gain_level[i] = last_level[i] * GainScale

\* C10 amended: after every frame of a strictly increasing sequence of raw
\* energies fed from the initial gain state, auto_gain_level equals the
\* frame's raw energy if that exceeds min_auto_gain, and min_auto_gain
\* otherwise (a first frame of raw energy 0).
C10_TracksRisingEnergy ==
  \A i \in Bands :
    (rising[i] /\ frames[i] >= 1) =>
       auto_gain_level[i] =
         (IF last_level[i] * GainScale > min_auto_gain
          THEN last_level[i] * GainScale
          ELSE min_auto_gain)

\* C10 witness: a band after three frames of strictly increasing energy.
C10_Witness ==
  \E i \in Bands :
    /\ rising[i]
    /\ frames[i] >= 3
    /\ auto_gain_level[i] = last_level[i] * GainScale

\* The step is iteration i of the band loop, on a band of one bin whose bin
\* holds raw_min_value + 10.
BandStepOnTen(i) ==
  /\ pc = "bands"
  /\ band_i = i
  /\ band_i' = i + 1
  /\ BinsCount(i) = 1
  /\ audio_buffer[read_buffer][fft_offset] = raw_min_value + 10

\* C11 as stated: the first frame gives raw energy 10, auto_gain_level 10 and
\* normalized output 1.0, and the second frame leaves auto_gain_level at 10.
C11_Original ==
  [][\A i \in Bands :
       BandStepOnTen(i) =>
         /\ auto_gain_level[i] = min_auto_gain =>
              /\ CurrentTotal = 10
              /\ auto_gain_level'[i] = 10 * GainScale
              /\ Normalized(CurrentTotal * GainScale, auto_gain_level'[i]) = GainScale
         /\ auto_gain_level[i] = 10 * GainScale =>
              auto_gain_level'[i] = 10 * GainScale]_vars

\* C11 amended: the first frame gives raw energy 10, auto_gain_level 10 and
\* normalized output 1.0; the second frame, whose level equals the gain,
\* takes the decay branch: auto_gain_level becomes 9.97 and the normalized
\* output 10 / 9.97.
C11_TieDecays ==
  [][\A i \in Bands :
       BandStepOnTen(i) =>
         /\ auto_gain_level[i] = min_auto_gain =>
              /\ CurrentTotal = 10
              /\ auto_gain_level'[i] = 10 * GainScale
              /\ Normalized(CurrentTotal * GainScale, auto_gain_level'[i]) = GainScale
         /\ auto_gain_level[i] = 10 * GainScale =>
              /\ auto_gain_level'[i] = 9970
              /\ Normalized(CurrentTotal * GainScale, auto_gain_level'[i]) = 1003]_vars

\* C11 witness: the band loop has passed a band whose bin holds
\* raw_min_value + 10 for the second frame in a row.
C11_Witness ==
  \E i \in Bands :
    /\ pc = "show"
    /\ BinsCount(i) = 1
    /\ audio_buffer[read_buffer][i + 1] = raw_min_value + 10
    /\ auto_gain_level[i] = 9970

(* ------------------------------- C12 --------------------------------- *)

\* The bands that bins_read attributes bin k to.
BinsOf(i) == {k \in 1 .. Len(bins_read) : bins_read[k][1] = i}

\* Walking from bin 1, the bins read so far are bins 1, 2, 3, ... in this
\* order, each read once, attributed to the bands in band order, and every
\* band already visited has read exactly frequency_bins_count[i] of them.
BinsPartition ==
  /\ \A k \in 1 .. Len(bins_read) : bins_read[k][2] = k
  /\ \A k \in 1 .. Len(bins_read) - 1 : bins_read[k][1] <= bins_read[k + 1][1]
  /\ \A i \in AllBands : i < band_i => Cardinality(BinsOf(i)) = BinsCount(i)
  /\ fft_offset = Len(bins_read) + 1

\* C12 as stated: the slices of the bands partition the bins from bin 1 on,
\* in band order, and the NUMPIXELS bands together consume fft_size/2 - 1
\* bins.
C12_Original ==
  /\ BinsPartition
  /\ band_i = NUMPIXELS => Len(bins_read) = fft_size \div 2 - 1

\* C12, amended: the slices partition bins 1..455 in band order; the bands
\* together consume 455 bins, fewer than fft_size/2 - 1 = 511, so the bins
\* from 456 on belong to no band.
C12_BandsPartitionLowBins ==
  /\ BinsPartition
  /\ band_i = NUMPIXELS =>
       /\ Len(bins_read) = 455
       /\ Len(bins_read) < fft_size \div 2 - 1
       /\ \A k \in 1 .. Len(bins_read) : bins_read[k][2] < fft_size \div 2

\* All NUMPIXELS bands have read their bins and the last of them, band 59,
\* read 130 bins ending at bin 455.
C12_Witness ==
  /\ pc = "show"
  /\ band_i = NUMPIXELS
  /\ Cardinality(BinsOf(NUMPIXELS - 1)) = 130
  /\ bins_read[Len(bins_read)] = << NUMPIXELS - 1, 455 >>

(* ------------------------------- C13 --------------------------------- *)

\* The samples of the block loop() is processing, as they were polled.
CurrentRaw == SubSeq(consumed, Len(consumed) - BlockSize + 1, Len(consumed))

\* loop() is past RemoveDCBias on a block whose samples were all equal.
ConstantBlock ==
  /\ pc \in {"fft", "bands", "show", "mark"}
  /\ \A k \in 1 .. BlockSize : CurrentRaw[k] = CurrentRaw[1]

\* C13: on a block of equal samples bias removal leaves all zeros, and (the
\* transform mapping silence to silence) every band processed has raw energy
\* 0 and normalized output 0, its divisor auto_gain_level being nonzero.
C13_ConstantBlockIsDark ==
  ConstantBlock =>
    /\ \A k \in Slots : audio_buffer[read_buffer][k] = 0
    /\ pc # "fft" =>
         \A i \in Bands : i < band_i =>
           /\ last_level[i] = 0
           /\ auto_gain_level[i] # 0
           /\ pixel_values[i] = 0
           /\ pixels[i] = 0

\* A block of samples all equal to a nonzero constant has gone through every
\* band, in a frame entered with a gain an earlier frame had raised.
C13_Witness ==
  /\ ConstantBlock
  /\ pc = "show"
  /\ CurrentRaw[1] \in {-32768, 100, 32767}
  /\ loop_count = 2
  /\ \E i \in Bands : auto_gain_level[i] > min_auto_gain

(* ------------------------------- C14 --------------------------------- *)

\* C14: in the test variant, whenever pixel_value[i] * 30 / max_val is
\* evaluated, max_val is not zero.
C14_MaxValNonzero == pc = "t_pixels" => max_val # 0

(* ------------------------------- C15 --------------------------------- *)

\* A step of loop() that starts at the poll and finds the read block not
\* full.  (A step of onPDMdata() from such a state moves isr_pc.)
IdlePollStep ==
  /\ pc = "poll"
  /\ ~ReadBlockFull
  /\ isr_pc = "idle"
  /\ isr_pc' = "idle"

\* C15: a poll that finds the read block not full changes neither the fill
\* counts, the samples, the role pointers, the gains, loop_count nor the
\* display, issues no show(), and leaves loop() at the poll.
C15_IdlePollChangesNothing ==
  [][IdlePollStep =>
       /\ last_poll' = "idle"
       /\ UNCHANGED << audio_buffer, buffer_size, write_buffer, write_size,
                       read_buffer, read_size, auto_gain_level, loop_count,
                       pixels, pixel_values, strip, pc, band_i, fft_offset >>
       /\ shows' = shows]_vars

\* loop() has polled and found the read block not full, after an earlier
\* frame, while the producer has part of a block written.
C15_Witness ==
  /\ last_poll = "idle"
  /\ pc = "poll"
  /\ loop_count > 0
  /\ buffer_size[write_size] > 0
  /\ buffer_size[write_size] < BlockSize

(* ------------------------------- C16 --------------------------------- *)

\* Every element has been written exactly once since the poll that started
\* the frame.
FrameWritten == \A i \in Bands : written[i] = 1

\* C16: a frame issues show() exactly once: not before every element has
\* been written once (no show() up to the end of the band loop), once by the
\* time the block is marked consumed, and never again in the frame; and the
\* step that issues it finds all elements written and the read block still
\* full.
C16_ShowOncePerFrame ==
  /\ [](/\ pc \in {"dc", "fft", "bands", "show"} => shows = 0
        /\ pc \in {"mark", "flip_size", "flip_buffer"} => shows = 1
        /\ shows \in {0, 1}
        /\ shows = 1 => FrameWritten)
  /\ [][shows' # shows /\ shows' # 0 =>
          /\ shows = 0
          /\ shows' = 1
          /\ FrameWritten
          /\ UNCHANGED written
          /\ ReadBlockFull
          /\ buffer_size'[read_size] = BlockSize]_vars

\* The second frame has issued its show() and has not yet marked its block
\* consumed.
C16_Witness ==
  /\ pc = "mark"
  /\ shows = 1
  /\ FrameWritten
  /\ ReadBlockFull
  /\ loop_count = 2

(* ------------------------------- C17 --------------------------------- *)

\* Band i is fed a raw total by this step.
Fed(i) == frames'[i] # frames[i]

\* Line 177 of the step that feeds band i: the level fed exceeds the gain.
Attack(i) == last_level'[i] * GainScale > auto_gain_level[i]

\* C17 as stated: the normalized output of a band exceeds 1 only in a frame
\* that takes the attack branch, and is at most 1 in a frame that decays.
C17_Original ==
  [][\A i \in Bands : Fed(i) =>
       /\ pixel_values'[i] > GainScale => Attack(i)
       /\ ~Attack(i) => pixel_values'[i] <= GainScale]_vars

\* C17, amended: a frame that takes the attack branch outputs exactly 1; a
\* frame that decays outputs at most 1/0.997 (the level is at most the old
\* gain, and the new gain is 0.997 of it or more), which is above 1 when the
\* level exceeds the decayed gain.
C17_DecayMayExceedOne ==
  [][\A i \in Bands : Fed(i) =>
       /\ Attack(i) => pixel_values'[i] = GainScale
       /\ ~Attack(i) =>
            /\ last_level'[i] * GainScale * 997 <= auto_gain_level'[i] * 1000 + 999
            /\ pixel_values'[i] > GainScale <=>
                 last_level'[i] * GainScale > auto_gain_level'[i]]_vars

\* A band fed twice whose latest level, equal to its gain, decayed the gain
\* below the level: the output is above 1.
C17_Witness ==
  \E i \in Bands :
    /\ frames[i] = 2
    /\ last_level[i] = 10
    /\ auto_gain_level[i] = 9970
    /\ pixel_values[i] > GainScale

(* ------------------------------- C18 --------------------------------- *)

\* C18: a band whose value of the frame (level / auto_gain_level[i], the
\* scale bin_minimum is written in) is below bin_minimum[i] is written dark.
C18_BelowFloorIsDark ==
  \A i \in AllBands :
    (i < band_i /\ pixel_values[i] < BinMinimum(i)) => pixels[i] = 0

(* ------------------------------- C19 --------------------------------- *)

\* C19: outside onPDMdata() the write block holds fewer than BlockSize
\* samples, so an invocation has room for at least one, and the other block
\* is empty or full; when onPDMdata() tests the other block (line 237), the
\* test != 0 decides as the test == BlockSize would.
C19_FillCounts ==
  LET other == Other(write_size)
  IN /\ isr_pc = "idle" =>
          /\ 0 <= buffer_size[write_size]
          /\ buffer_size[write_size] < BlockSize
          /\ BlockSize - buffer_size[write_size] >= 1
     /\ buffer_size[other] \in {0, BlockSize}
     /\ NoRoom(other) <=> Full(other)

\* onPDMdata() has completed its block and tests the other block, which
\* loop() has not consumed: the test decides a discard.
C19_Witness ==
  /\ isr_pc = "check"
  /\ Full(write_size)
  /\ NoRoom(Other(write_size))
  /\ pc \in {"bands", "show"}

(* ------------------------------- C20 --------------------------------- *)

\* C20: the samples loop() has processed form blocks of BlockSize samples;
\* within a block each sample is the successor, in the stream, of the one
\* before it, and a block starts later in the stream than the block before
\* it ended.
C20_BlocksConsecutive ==
  /\ Len(consumed) % BlockSize = 0
  /\ \A k \in 1 .. Len(consumed) - 1 :
       IF k % BlockSize = 0
       THEN consumed[k + 1] > consumed[k]
       ELSE consumed[k + 1] = consumed[k] + 1

\* After an overrun loop() has processed two blocks, the second starting
\* more than one sample after the end of the first.
C20_Witness ==
  /\ overrun
  /\ Len(consumed) >= 2 * BlockSize
  /\ consumed[BlockSize + 1] > consumed[BlockSize] + 1

====
